---- MODULE Spec2Model ----
(***************************************************************************)
(* A model of the regexp crate: the compiler (src/src/compile.rs), the     *)
(* search facade and its iterators (src/src/regexp.rs), and the NFA        *)
(* simulation they drive (module vm, modelled from the specification).     *)
(*                                                                         *)
(* Conventions.  A char is its Unicode code point.  A string (&str, ~str)  *)
(* is the sequence of its UTF-8 bytes; its chars are decoded from it, and  *)
(* slicing is by byte offset as in the source.                             *)
(* Option<T> is a sequence of length 0 (None) or 1 (Some).                 *)
(* Vectors are 0-indexed in the source: At(v, i) reads v[i].               *)
(*                                                                         *)
(* A value that is computed once and read several times is bound with      *)
(*     CHOOSE out \in { body : v \in { expr } } : TRUE                      *)
(* which equals body with v standing for the value of expr.                *)
(***************************************************************************)
EXTENDS Integers, Sequences, FiniteSets, TLC

None == << >>
Some(v) == << v >>
IsSome(o) == Len(o) = 1
Unwrap(o) == o[1]

At(v, i) == v[i + 1]
Push(v, x) == Append(v, x)
Max(a, b) == IF a >= b THEN a ELSE b

(***************************************************************************)
(* Bounds of the model.                                                    *)
(***************************************************************************)
MaxLen == 3
MaxLimit == 3
ExtraCalls == 2
AstDepth == 2

(***************************************************************************)
(* The AST handed to the compiler (the variants compile.rs matches on).    *)
(***************************************************************************)
Nothing == [k |-> "Nothing"]
Literal(c, casei) == [k |-> "Literal", c |-> c, casei |-> casei]
Dot(nl) == [k |-> "Dot", nl |-> nl]
Class(ranges, negated, casei) ==
    [k |-> "Class", ranges |-> ranges, negated |-> negated, casei |-> casei]
Begin(multi) == [k |-> "Begin", multi |-> multi]
End(multi) == [k |-> "End", multi |-> multi]
WordBoundary(yes) == [k |-> "WordBoundary", yes |-> yes]
Capture(cap, name, x) == [k |-> "Capture", cap |-> cap, name |-> name, x |-> x]
Cat(xs) == [k |-> "Cat", xs |-> xs]
Alt(x, y) == [k |-> "Alt", x |-> x, y |-> y]
Rep(x, kind, greedy) == [k |-> "Rep", x |-> x, kind |-> kind, greedy |-> greedy]

(***************************************************************************)
(* Instructions (enum Inst).                                               *)
(***************************************************************************)
Match == [op |-> "Match"]
Char_(c, casei) == [op |-> "Char", c |-> c, casei |-> casei]
CharClass(ranges, negated, casei) ==
    [op |-> "CharClass", ranges |-> ranges, negated |-> negated, casei |-> casei]
Any_(nl) == [op |-> "Any", nl |-> nl]
EmptyBegin(multi) == [op |-> "EmptyBegin", multi |-> multi]
EmptyEnd(multi) == [op |-> "EmptyEnd", multi |-> multi]
EmptyWordBoundary(yes) == [op |-> "EmptyWordBoundary", yes |-> yes]
Save(slot) == [op |-> "Save", slot |-> slot]
Jump(to) == [op |-> "Jump", to |-> to]
Split(x, y) == [op |-> "Split", x |-> x, y |-> y]

(***************************************************************************)
(* Compiler: a record [insts, names, failed]; failed records that          *)
(* set_split / set_jump hit fail!("BUG: ...").                             *)
(***************************************************************************)
push(c, x) == [c EXCEPT !.insts = Push(c.insts, x)]

\* Pushes Split(0, 0); the index of the pushed instruction is Len(insts) - 1.
empty_split(c) == push(c, Split(0, 0))

set_split(c, i, pc1, pc2) ==
    IF At(c.insts, i).op = "Split"
    THEN [c EXCEPT !.insts[i + 1] = Split(pc1, pc2)]
    ELSE [c EXCEPT !.failed = TRUE]

empty_jump(c) == push(c, Jump(0))

\* Mutant of set_jump: the placeholder is left as pushed.
set_jump_lost(c, i, pc) == c

set_jump(c, i, pc) ==
    IF At(c.insts, i).op = "Jump"
    THEN [c EXCEPT !.insts[i + 1] = Jump(pc)]
    ELSE [c EXCEPT !.failed = TRUE]

\* names.grow(n, &None)
grow(names, n) == names \o [j \in 1..n |-> None]

\* Mutant of CaptureOpen: the opening Save writes the closing slot.
CaptureOpen_slot(c, ast) ==
    LET len == Len(c.names)
        grown == IF ast.cap >= len THEN grow(c.names, 10 + ast.cap - len)
                 ELSE c.names
        named == [grown EXCEPT ![ast.cap + 1] = ast.name]
    IN  push([c EXCEPT !.names = named], Save(2 * ast.cap + 1))

\* The Capture arm up to and including the opening Save.
CaptureOpen(c, ast) ==
    LET len == Len(c.names)
        grown == IF ast.cap >= len THEN grow(c.names, 10 + ast.cap - len)
                 ELSE c.names
        named == [grown EXCEPT ![ast.cap + 1] = ast.name]
    IN  push([c EXCEPT !.names = named], Save(2 * ast.cap))

CaptureClose(c, ast) == push(c, Save(2 * ast.cap + 1))

\* Mutant of AltPatch: the two targets of the Split are swapped.
AltPatch_swapped(c, split, j1, jmp, j2, j3) ==
    set_jump(set_split(c, split, j2, j1), jmp, j3)

\* The patching at the end of the Alt arm.
AltPatch(c, split, j1, jmp, j2, j3) ==
    set_jump(set_split(c, split, j1, j2), jmp, j3)

\* The patching at the end of each Rep arm.
RepPatch(c, split, greedy, first, second) ==
    IF greedy THEN set_split(c, split, first, second)
    ELSE set_split(c, split, second, first)

RECURSIVE compile(_, _)
RECURSIVE compileCat(_, _, _)

compileCat(c, xs, i) ==
    IF i > Len(xs) THEN c ELSE compileCat(compile(c, xs[i]), xs, i + 1)

compile(c, ast) ==
    CASE ast.k = "Nothing" -> c
      [] ast.k = "Literal" -> push(c, Char_(ast.c, ast.casei))
      [] ast.k = "Dot" -> push(c, Any_(ast.nl))
      [] ast.k = "Class" -> push(c, CharClass(ast.ranges, ast.negated, ast.casei))
      [] ast.k = "Begin" -> push(c, EmptyBegin(ast.multi))
      [] ast.k = "End" -> push(c, EmptyEnd(ast.multi))
      [] ast.k = "WordBoundary" -> push(c, EmptyWordBoundary(ast.yes))
      [] ast.k = "Capture" ->
            CaptureClose(compile(CaptureOpen(c, ast), ast.x), ast)
      [] ast.k = "Cat" -> compileCat(c, ast.xs, 1)
      [] ast.k = "Alt" ->
            LET c1 == empty_split(c)
                split == Len(c1.insts) - 1
                j1 == Len(c1.insts)
                c2 == compile(c1, ast.x)
                c3 == empty_jump(c2)
                jmp == Len(c3.insts) - 1
                j2 == Len(c3.insts)
                c4 == compile(c3, ast.y)
                j3 == Len(c4.insts)
            IN  AltPatch(c4, split, j1, jmp, j2, j3)
      [] ast.k = "Rep" /\ ast.kind = "ZeroOne" ->
            LET c1 == empty_split(c)
                split == Len(c1.insts) - 1
                j1 == Len(c1.insts)
                c2 == compile(c1, ast.x)
                j2 == Len(c2.insts)
            IN  RepPatch(c2, split, ast.greedy, j1, j2)
      [] ast.k = "Rep" /\ ast.kind = "ZeroMore" ->
            LET j1 == Len(c.insts)
                c1 == empty_split(c)
                split == Len(c1.insts) - 1
                j2 == Len(c1.insts)
                c2 == compile(c1, ast.x)
                c3 == empty_jump(c2)
                jmp == Len(c3.insts) - 1
                j3 == Len(c3.insts)
            IN  RepPatch(set_jump(c3, jmp, j1), split, ast.greedy, j2, j3)
      [] ast.k = "Rep" /\ ast.kind = "OneMore" ->
            LET j1 == Len(c.insts)
                c1 == compile(c, ast.x)
                c2 == empty_split(c1)
                split == Len(c2.insts) - 1
                j2 == Len(c2.insts)
            IN  RepPatch(c2, split, ast.greedy, j1, j2)

\* Mutant of prefixFrom: case-insensitive Char instructions are collected too.
RECURSIVE prefixFrom_casei(_, _)
prefixFrom_casei(insts, i) ==
    IF i < Len(insts) /\ At(insts, i).op = "Char"
    THEN << At(insts, i).c >> \o prefixFrom_casei(insts, i + 1)
    ELSE << >>

\* The literal prefix scan of DynamicProgram::new, from instruction i on.
RECURSIVE prefixFrom(_, _)
prefixFrom(insts, i) ==
    IF i < Len(insts) /\ At(insts, i).op = "Char" /\ ~At(insts, i).casei
    THEN << At(insts, i).c >> \o prefixFrom(insts, i + 1)
    ELSE << >>

\* The instructions DynamicProgram::new emits around the compiled AST.
ProgramOpen == push([insts |-> << >>, names |-> << >>, failed |-> FALSE], Save(0))
ProgramClose(c) == push(push(c, Save(1)), Match)

DynamicProgram_new(regex, ast) ==
    LET c == ProgramClose(compile(ProgramOpen, ast))
    IN  [regex |-> regex, insts |-> c.insts, names |-> c.names,
         prefix |-> prefixFrom(c.insts, 1), failed |-> c.failed]

\* Program::num_captures: two Save slots for every capture.
RECURSIVE maxSave(_, _, _)
maxSave(insts, i, n) ==
    IF i >= Len(insts) THEN n
    ELSE CHOOSE out \in
           { maxSave(insts, i + 1, m) :
               m \in { IF At(insts, i).op = "Save"
                       THEN Max(n, At(insts, i).slot + 1) ELSE n } } : TRUE

num_captures(insts) == maxSave(insts, 0, 0) \div 2

(***************************************************************************)
(* Module vm: the NFA simulation.  A thread is [pc, slots]; a thread list  *)
(* is [threads, seen], seen being the pcs already added at this input      *)
(* position.                                                               *)
(***************************************************************************)
IsAlphanumeric(c) ==
    \/ c \in 48..57
    \/ c \in 65..90
    \/ c \in 97..122
    \/ (c \in 192..255 /\ c # 215 /\ c # 247)

is_word(c) == IsAlphanumeric(c) \/ c = 95

\* Simple case folding, on the code points the model uses.
Fold(c) ==
    IF c \in 97..122 \/ (c \in 224..254 /\ c # 247) THEN c - 32 ELSE c

Unfold(c) ==
    IF c \in 65..90 \/ (c \in 192..222 /\ c # 215) THEN c + 32 ELSE c

InRanges(ranges, c) ==
    \E j \in 1..Len(ranges) : ranges[j][1] <= c /\ c <= ranges[j][2]

\* Whether a consuming instruction accepts the char ch.
Consumes(inst, ch) ==
    CASE inst.op = "Char" ->
            IF inst.casei THEN Fold(inst.c) = Fold(ch) ELSE inst.c = ch
      [] inst.op = "Any" -> inst.nl \/ ch # 10
      [] inst.op = "CharClass" ->
            LET hit == \/ InRanges(inst.ranges, ch)
                       \/ /\ inst.casei
                          /\ \/ InRanges(inst.ranges, Fold(ch))
                             \/ InRanges(inst.ranges, Unfold(ch))
            IN  hit # inst.negated
      [] OTHER -> FALSE

\* Whether a zero-width assertion holds at position i of input.
EmptyHolds(inst, input, i) ==
    LET n == Len(input) IN
    CASE inst.op = "EmptyBegin" ->
            i = 0 \/ (inst.multi /\ At(input, i - 1) = 10)
      [] inst.op = "EmptyEnd" ->
            i = n \/ (inst.multi /\ At(input, i) = 10)
      [] inst.op = "EmptyWordBoundary" ->
            LET prev == i > 0 /\ is_word(At(input, i - 1))
                next == i < n /\ is_word(At(input, i))
            IN  (prev # next) = inst.yes

EmptyThreads == [threads |-> << >>, seen |-> {}]

\* Mutant of Add: a pc that holds a consuming instruction is added again each
\* time it is reached.
RECURSIVE Add_again(_, _, _, _, _, _)
Add_again(insts, input, list, pc, slots, i) ==
    IF pc \in list.seen
          /\ At(insts, pc).op \in {"Jump", "Split", "Save", "EmptyBegin",
                                   "EmptyEnd", "EmptyWordBoundary"}
    THEN list
    ELSE CHOOSE out \in
      { CASE inst.op = "Jump" -> Add_again(insts, input, l1, inst.to, slots, i)
          [] inst.op = "Split" ->
                CHOOSE out2 \in
                  { Add_again(insts, input, l2, inst.y, slots, i) :
                      l2 \in { Add_again(insts, input, l1, inst.x, slots, i) } } : TRUE
          [] inst.op = "Save" ->
                CHOOSE out2 \in
                  { Add_again(insts, input, l1, pc + 1, saved, i) :
                      saved \in { [slots EXCEPT ![inst.slot + 1] = Some(i)] } } : TRUE
          [] inst.op \in {"EmptyBegin", "EmptyEnd", "EmptyWordBoundary"} ->
                IF EmptyHolds(inst, input, i)
                THEN Add_again(insts, input, l1, pc + 1, slots, i)
                ELSE l1
          [] OTHER ->
                [l1 EXCEPT !.threads = Push(@, [pc |-> pc, slots |-> slots])]
        : inst \in { At(insts, pc) },
          l1 \in { [list EXCEPT !.seen = @ \cup {pc}] } } : TRUE

\* Adds the epsilon closure of pc at position i to a thread list, in priority
\* order; a pc already seen at this position is not added again.
RECURSIVE Add(_, _, _, _, _, _)
Add(insts, input, list, pc, slots, i) ==
    IF pc \in list.seen THEN list
    ELSE CHOOSE out \in
      { CASE inst.op = "Jump" -> Add(insts, input, l1, inst.to, slots, i)
          [] inst.op = "Split" ->
                CHOOSE out2 \in
                  { Add(insts, input, l2, inst.y, slots, i) :
                      l2 \in { Add(insts, input, l1, inst.x, slots, i) } } : TRUE
          [] inst.op = "Save" ->
                CHOOSE out2 \in
                  { Add(insts, input, l1, pc + 1, saved, i) :
                      saved \in { [slots EXCEPT ![inst.slot + 1] = Some(i)] } } : TRUE
          [] inst.op \in {"EmptyBegin", "EmptyEnd", "EmptyWordBoundary"} ->
                IF EmptyHolds(inst, input, i)
                THEN Add(insts, input, l1, pc + 1, slots, i)
                ELSE l1
          [] OTHER ->
                [l1 EXCEPT !.threads = Push(@, [pc |-> pc, slots |-> slots])]
        : inst \in { At(insts, pc) },
          l1 \in { [list EXCEPT !.seen = @ \cup {pc}] } } : TRUE

\* One step over the threads of clist, from thread k on, at position i:
\* a Match thread records its slots and cuts off the lower-priority threads.
RECURSIVE StepThreads(_, _, _, _, _, _, _)
StepThreads(insts, input, i, threads, k, nlist, matched) ==
    IF k > Len(threads) THEN [nlist |-> nlist, matched |-> matched]
    ELSE CHOOSE out \in
      { IF inst.op = "Match"
        THEN [nlist |-> nlist, matched |-> Some(t.slots)]
        ELSE IF i < Len(input) /\ Consumes(inst, At(input, i))
        THEN CHOOSE out2 \in
               { StepThreads(insts, input, i, threads, k + 1, added, matched) :
                   added \in { Add(insts, input, nlist, t.pc + 1, t.slots, i + 1) } }
               : TRUE
        ELSE StepThreads(insts, input, i, threads, k + 1, nlist, matched)
        : t \in { threads[k] }, inst \in { At(insts, threads[k].pc) } } : TRUE

\* The loop over input positions 0..n; a new thread is seeded at pc 0, after
\* the threads carried over, as long as no match has been found.
RECURSIVE Loop(_, _, _, _, _, _)
Loop(insts, input, fresh, i, clist, matched) ==
    IF i > Len(input) THEN matched
    ELSE CHOOSE out \in
      { IF seeded.threads = << >> THEN
            IF matched # None THEN matched
            ELSE Loop(insts, input, fresh, i + 1, EmptyThreads, matched)
        ELSE
            CHOOSE out2 \in
              { Loop(insts, input, fresh, i + 1, r.nlist, r.matched) :
                  r \in { StepThreads(insts, input, i, seeded.threads, 1,
                                      EmptyThreads, matched) } } : TRUE
        : seeded \in { IF matched = None
                       THEN Add(insts, input, clist, 0, fresh, i)
                       ELSE clist } } : TRUE

\* The save slots of the winning thread (None when nothing matched); every
\* thread starts with 2 * num_captures empty slots.
VmSlots(insts, input) ==
    CHOOSE out \in
      { Loop(insts, input, fresh, 0, EmptyThreads, None) :
          fresh \in { [j \in 1..(2 * num_captures(insts)) |-> None] } } : TRUE

\* Slots 2g and 2g+1 as the span of group g.
Pairs(slots, ngroups) ==
    [g \in 1..ngroups |->
        IF IsSome(slots[2 * g - 1]) /\ IsSome(slots[2 * g])
        THEN Some(<< Unwrap(slots[2 * g - 1]), Unwrap(slots[2 * g]) >>)
        ELSE None]

\* vm::run(insts, chars, caps): one optional (start, end) per group, in char
\* offsets of chars; with caps off only group 0 is reported.
vm_run(insts, input, caps) ==
    CHOOSE out \in
      { IF won = None THEN [g \in 1..ngroups |-> None]
        ELSE Pairs(Unwrap(won), ngroups)
        : ngroups \in { IF caps THEN num_captures(insts) ELSE 1 },
          won \in { VmSlots(insts, input) } } : TRUE

(***************************************************************************)
(* Strings.  A &str is the sequence of its UTF-8 bytes; the model only     *)
(* builds strings by encoding chars, so every string is valid UTF-8.       *)
(***************************************************************************)
Utf8(c) ==
    IF c < 128 THEN << c >>
    ELSE IF c < 2048 THEN << 192 + (c \div 64), 128 + (c % 64) >>
    ELSE << 224 + (c \div 4096), 128 + ((c \div 64) % 64), 128 + (c % 64) >>

RECURSIVE Encode(_)
Encode(cs) == IF cs = << >> THEN << >> ELSE Utf8(Head(cs)) \o Encode(Tail(cs))

\* The width in bytes of the char whose first byte is b.
Width(b) == IF b < 128 THEN 1 ELSE IF b < 224 THEN 2 ELSE 3

\* The char encoded at byte offset bi of input.
DecodeAt(input, bi) ==
    LET b == At(input, bi) IN
    IF b < 128 THEN b
    ELSE IF b < 224 THEN (b - 192) * 64 + (At(input, bi + 1) - 128)
    ELSE (b - 224) * 4096 + (At(input, bi + 1) - 128) * 64
         + (At(input, bi + 2) - 128)

\* input.char_indices(): the (byte offset, char) pairs of input, from bi on.
RECURSIVE char_indices(_, _)
char_indices(input, bi) ==
    IF bi >= Len(input) THEN << >>
    ELSE CHOOSE out \in
           { << << bi, DecodeAt(input, bi) >> >> \o char_indices(input, nbi) :
               nbi \in { bi + Width(At(input, bi)) } } : TRUE

\* input.chars().collect()
chars_of(input) ==
    CHOOSE out \in
      { [j \in 1..Len(ci) |-> ci[j][2]] : ci \in { char_indices(input, 0) } } : TRUE

is_char_boundary(text, i) ==
    i = Len(text) \/ (i >= 0 /\ i < Len(text) /\ ~(At(text, i) \in 128..191))

\* The byte that marks a string produced by a failed slice.
SliceFailed == << 255 >>

\* text.slice(s, e), by byte offsets; it fails off a char boundary.
slice(text, s, e) ==
    IF s <= e /\ is_char_boundary(text, s) /\ is_char_boundary(text, e)
    THEN SubSeq(text, s + 1, e)
    ELSE SliceFailed

(***************************************************************************)
(* SearchText and the conversions between char and byte indices.           *)
(***************************************************************************)
char_to_byte_indices(input) ==
    CHOOSE out \in
      { Push([j \in 1..Len(ci) |-> ci[j][1]], Len(input)) :
          ci \in { char_indices(input, 0) } } : TRUE

\* Mutant of cap_to_byte_indices: the char offsets are returned as they are.
cap_to_byte_indices_none(cis, bis) == cis

cap_to_byte_indices(cis, bis) ==
    [j \in 1..Len(cis) |->
        IF IsSome(cis[j])
        THEN Some(<< At(bis, Unwrap(cis[j])[1]), At(bis, Unwrap(cis[j])[2]) >>)
        ELSE None]

SearchText_from_str(input, caps) ==
    [text |-> input, chars |-> chars_of(input),
     bytei |-> char_to_byte_indices(input), caps |-> caps]

SearchText_exec(search, re) ==
    CHOOSE out \in
      { cap_to_byte_indices(caps, search.bytei) :
          caps \in { vm_run(re.prog, search.chars, search.caps) } } : TRUE

SearchText_exec_slice(search, re, us, ue) ==
    CHOOSE out \in
      { [j \in 1..Len(caps) |->
            IF IsSome(caps[j])
            THEN Some(<< us + Unwrap(caps[j])[1], us + Unwrap(caps[j])[2] >>)
            ELSE None]
        : caps \in { vm_run(re.prog, SubSeq(search.chars, us + 1, ue),
                            search.caps) } } : TRUE

(***************************************************************************)
(* Regexp and its one-shot searches.                                       *)
(***************************************************************************)
Regexp_new(regex, ast) ==
    LET p == DynamicProgram_new(regex, ast)
    IN  [orig |-> regex, prog |-> p.insts, names |-> p.names]

run(re, text) ==
    CHOOSE out \in
      { SearchText_exec(search, re) :
          search \in { SearchText_from_str(text, TRUE) } } : TRUE

\* Mutant of has_match: the length test is off by one.
has_match_len(caps) == Len(caps) > 1 /\ IsSome(At(caps, 0))

has_match(caps) == Len(caps) > 0 /\ IsSome(At(caps, 0))

is_match(re, text) ==
    CHOOSE out \in
      { has_match(caps) :
          caps \in { SearchText_exec(SearchText_from_str(text, FALSE), re) } } : TRUE

find(re, text) == At(run(re, text), 0)

\* Captures::new: the named groups are the (name, index) pairs of re.names.
Captures_new(re, search, locs) ==
    IF ~has_match(locs) THEN None
    ELSE Some([text |-> search.text,
               locs |-> locs,
               named |-> { << Unwrap(re.names[j]), j - 1 >> :
                           j \in { n \in 1..Len(re.names) : IsSome(re.names[n]) } },
               offset |-> 0])

captures(re, text) ==
    CHOOSE out \in
      { CHOOSE out2 \in
          { Captures_new(re, search, caps) :
              caps \in { SearchText_exec(search, re) } } : TRUE
        : search \in { SearchText_from_str(text, TRUE) } } : TRUE

Captures_pos(caps, i) == IF i >= Len(caps.locs) THEN None ELSE At(caps.locs, i)

Captures_at(caps, i) ==
    CHOOSE out \in
      { IF p = None THEN << >> ELSE slice(caps.text, Unwrap(p)[1], Unwrap(p)[2]) :
          p \in { Captures_pos(caps, i) } } : TRUE

(***************************************************************************)
(* Replacers: NoExpand(s), and functions from the captures to a string     *)
(* (here: the text of group g).                                            *)
(***************************************************************************)
NoExpand(s) == [kind |-> "NoExpand", s |-> s, g |-> 0]
GroupText(g) == [kind |-> "Fn", s |-> << >>, g |-> g]

Replacer_replace(rep, caps) ==
    IF rep.kind = "NoExpand" THEN rep.s ELSE Captures_at(caps, rep.g)

replace(re, text, rep) ==
    CHOOSE out \in
      { IF got = None THEN << >>
        ELSE LET caps == Unwrap(got)
                 p == Captures_pos(caps, 0)
             IN  IF p = None THEN text
                 ELSE slice(text, 0, Unwrap(p)[1])
                      \o Replacer_replace(rep, caps)
                      \o slice(text, Unwrap(p)[2], Len(text))
        : got \in { captures(re, text) } } : TRUE

(***************************************************************************)
(* The iterators.  Each next returns [it |-> the iterator after the call,  *)
(* ret |-> the Option it returns].  The reference to the Regexp they       *)
(* borrow is passed in.                                                    *)
(***************************************************************************)
find_iter(re, text) ==
    [search |-> SearchText_from_str(text, TRUE), last_end |-> 0, last_match |-> 0]

captures_iter(re, text) ==
    [search |-> SearchText_from_str(text, TRUE), last_match |-> 0, last_end |-> 0]

\* What both next methods do once a match is accepted.
Advance(it, ue) == [it EXCEPT !.last_end = ue, !.last_match = ue]

\* The test that rejects an empty match right after a match.
RejectsEmpty(it, us, ue) == ue - us = 0 /\ it.last_end = it.last_match

\* Mutant of FindMatches_next: the end of an accepted match is not recorded
\* in last_match.
RECURSIVE FindMatches_next_unrecorded(_, _)
FindMatches_next_unrecorded(re, it) ==
    IF it.last_end > Len(it.search.chars) THEN [it |-> it, ret |-> None]
    ELSE CHOOSE out \in
      { IF ~has_match(uni_caps) THEN [it |-> it, ret |-> None]
        ELSE
          LET us == Unwrap(At(uni_caps, 0))[1]
              ue == Unwrap(At(uni_caps, 0))[2]
          IN  IF RejectsEmpty(it, us, ue)
              THEN CHOOSE out2 \in
                     { FindMatches_next_unrecorded(re, again) :
                         again \in { [it EXCEPT !.last_end = @ + 1] } } : TRUE
              ELSE [it |-> [it EXCEPT !.last_end = ue],
                    ret |-> Some(<< At(it.search.bytei, us),
                                    At(it.search.bytei, ue) >>)]
        : uni_caps \in { SearchText_exec_slice(it.search, re, it.last_end,
                                               Len(it.search.chars)) } } : TRUE

\* Mutant of FindMatches_next: an empty match right after a match is accepted.
FindMatches_next_empty(re, it) ==
    IF it.last_end > Len(it.search.chars) THEN [it |-> it, ret |-> None]
    ELSE CHOOSE out \in
      { IF ~has_match(uni_caps) THEN [it |-> it, ret |-> None]
        ELSE
          LET us == Unwrap(At(uni_caps, 0))[1]
              ue == Unwrap(At(uni_caps, 0))[2]
          IN  [it |-> Advance(it, ue),
               ret |-> Some(<< At(it.search.bytei, us),
                               At(it.search.bytei, ue) >>)]
        : uni_caps \in { SearchText_exec_slice(it.search, re, it.last_end,
                                               Len(it.search.chars)) } } : TRUE

RECURSIVE FindMatches_next(_, _)
FindMatches_next(re, it) ==
    IF it.last_end > Len(it.search.chars) THEN [it |-> it, ret |-> None]
    ELSE CHOOSE out \in
      { IF ~has_match(uni_caps) THEN [it |-> it, ret |-> None]
        ELSE
          LET us == Unwrap(At(uni_caps, 0))[1]
              ue == Unwrap(At(uni_caps, 0))[2]
          IN  IF RejectsEmpty(it, us, ue)
              THEN CHOOSE out2 \in
                     { FindMatches_next(re, again) :
                         again \in { [it EXCEPT !.last_end = @ + 1] } } : TRUE
              ELSE [it |-> Advance(it, ue),
                    ret |-> Some(<< At(it.search.bytei, us),
                                    At(it.search.bytei, ue) >>)]
        : uni_caps \in { SearchText_exec_slice(it.search, re, it.last_end,
                                               Len(it.search.chars)) } } : TRUE

RECURSIVE FindCaptures_next(_, _)
FindCaptures_next(re, it) ==
    IF it.last_end > Len(it.search.chars) THEN [it |-> it, ret |-> None]
    ELSE CHOOSE out \in
      { IF ~has_match(uni_caps) THEN [it |-> it, ret |-> None]
        ELSE
          LET us == Unwrap(At(uni_caps, 0))[1]
              ue == Unwrap(At(uni_caps, 0))[2]
          IN  IF RejectsEmpty(it, us, ue)
              THEN CHOOSE out2 \in
                     { FindCaptures_next(re, again) :
                         again \in { [it EXCEPT !.last_end = @ + 1] } } : TRUE
              ELSE CHOOSE out2 \in
                     { [it |-> Advance(it, ue),
                        ret |-> Captures_new(re, it.search, byte_caps)] :
                         byte_caps \in { cap_to_byte_indices(uni_caps,
                                                             it.search.bytei) } }
                     : TRUE
        : uni_caps \in { SearchText_exec_slice(it.search, re, it.last_end,
                                               Len(it.search.chars)) } } : TRUE

split(re, text) == [finder |-> find_iter(re, text), text |-> text, last |-> 0]

\* Mutant of RegexpSplits_next: after a match, last is set to the start of the
\* match instead of its end.
RegexpSplits_next_start(re, it) ==
    CHOOSE out \in
      { LET moved == [it EXCEPT !.finder = r.it]
        IN  IF r.ret = None THEN
                IF it.last >= Len(it.text) THEN [it |-> moved, ret |-> None]
                ELSE [it |-> [moved EXCEPT !.last = Len(it.text)],
                      ret |-> Some(slice(it.text, it.last, Len(it.text)))]
            ELSE [it |-> [moved EXCEPT !.last = Unwrap(r.ret)[1]],
                  ret |-> Some(slice(it.text, it.last, Unwrap(r.ret)[1]))]
        : r \in { FindMatches_next(re, it.finder) } } : TRUE

RegexpSplits_next(re, it) ==
    CHOOSE out \in
      { LET moved == [it EXCEPT !.finder = r.it]
        IN  IF r.ret = None THEN
                IF it.last >= Len(it.text) THEN [it |-> moved, ret |-> None]
                ELSE [it |-> [moved EXCEPT !.last = Len(it.text)],
                      ret |-> Some(slice(it.text, it.last, Len(it.text)))]
            ELSE [it |-> [moved EXCEPT !.last = Unwrap(r.ret)[2]],
                  ret |-> Some(slice(it.text, it.last, Unwrap(r.ret)[1]))]
        : r \in { FindMatches_next(re, it.finder) } } : TRUE

splitn(re, text, limit) == [splits |-> split(re, text), cur |-> 0, limit |-> limit]

RegexpSplitsN_next(re, it) ==
    IF it.cur >= it.limit THEN [it |-> it, ret |-> None]
    ELSE
      LET counted == [it EXCEPT !.cur = @ + 1]
      IN  IF counted.cur >= counted.limit
          THEN [it |-> counted,
                ret |-> Some(slice(it.splits.text, it.splits.last,
                                   Len(it.splits.text)))]
          ELSE CHOOSE out \in
                 { [it |-> [counted EXCEPT !.splits = r.it], ret |-> r.ret] :
                     r \in { RegexpSplits_next(re, it.splits) } } : TRUE

(***************************************************************************)
(* replace_all and replacen.                                               *)
(***************************************************************************)
\* Mutant of LimitReached: the comparison with the limit is off by one.
LimitReached_late(limit, i) == limit > 0 /\ i > limit

\* The break of replacen's loop.
LimitReached(limit, i) == limit > 0 /\ i >= limit

\* The for loop of replacen, from iterator state it on.
RECURSIVE replacenLoop(_, _, _, _, _, _, _, _)
replacenLoop(re, text, limit, rep, it, new, last_match, i) ==
    CHOOSE out \in
      { IF r.ret = None \/ LimitReached(limit, i)
        THEN new \o slice(text, last_match, Len(text))
        ELSE LET cap == Unwrap(r.ret)
                 p == Unwrap(Captures_pos(cap, 0))
             IN  CHOOSE out2 \in
                   { replacenLoop(re, text, limit, rep, r.it, grown, p[2], i + 1) :
                       grown \in { new \o slice(text, last_match, p[1])
                                       \o Replacer_replace(rep, cap) } } : TRUE
        : r \in { FindCaptures_next(re, it) } } : TRUE

replacen(re, text, limit, rep) ==
    CHOOSE out \in
      { replacenLoop(re, text, limit, rep, it, << >>, 0, 0) :
          it \in { captures_iter(re, text) } } : TRUE

replace_all(re, text, rep) == replacen(re, text, 0, rep)

(***************************************************************************)
(* The inputs of the model: the regexes (source and AST; the parser is not *)
(* modelled) and the texts.                                                *)
(***************************************************************************)
Alphabet == {97, 98, 233}

Lit(c) == Literal(c, FALSE)

Regexes ==
    { [src |-> "", ast |-> Nothing],
      [src |-> "a|ab", ast |-> Alt(Lit(97), Cat(<< Lit(97), Lit(98) >>))],
      [src |-> "a+", ast |-> Rep(Lit(97), "OneMore", TRUE)],
      [src |-> "a*", ast |-> Rep(Lit(97), "ZeroMore", TRUE)],
      [src |-> "a*?", ast |-> Rep(Lit(97), "ZeroMore", FALSE)],
      [src |-> "(a)|b", ast |-> Alt(Capture(1, None, Lit(97)), Lit(98))],
      [src |-> "(a*)+", ast |-> Rep(Capture(1, None, Rep(Lit(97), "ZeroMore", TRUE)),
                                    "OneMore", TRUE)],
      [src |-> "^a", ast |-> Cat(<< Begin(FALSE), Lit(97) >>)],
      [src |-> "b", ast |-> Lit(98)],
      [src |-> ".", ast |-> Dot(FALSE)],
      [src |-> "(?P<n>a)??b",
       ast |-> Cat(<< Rep(Capture(1, Some("n"), Lit(97)), "ZeroOne", FALSE),
                      Lit(98) >>)],
      [src |-> "(?i)A", ast |-> Literal(65, TRUE)],
      [src |-> "$", ast |-> End(FALSE)],
      [src |-> "\\b", ast |-> WordBoundary(TRUE)],
      [src |-> "[^a]", ast |-> Class(<< << 97, 97 >> >>, TRUE, FALSE)],
      [src |-> "(a|ab)(b)?a?",
       ast |-> Cat(<< Capture(1, None, Alt(Lit(97), Cat(<< Lit(97), Lit(98) >>))),
                      Rep(Capture(2, None, Lit(98)), "ZeroOne", TRUE),
                      Rep(Lit(97), "ZeroOne", TRUE) >>)],
      [src |-> "ab+", ast |-> Cat(<< Lit(97), Rep(Lit(98), "OneMore", TRUE) >>)],
      [src |-> "^$", ast |-> Cat(<< Begin(FALSE), End(FALSE) >>)] }

AstOf(src) == (CHOOSE r \in Regexes : r.src = src).ast

CharSeqs == UNION { [1..n -> Alphabet] : n \in 0..MaxLen }

Replacers == { NoExpand(<< 120 >>), GroupText(0), GroupText(1) }

(***************************************************************************)
(* The state: a compiled regex, a text, and one client session on them:    *)
(* either a single call (call, ret) or an iterator being drained.  An      *)
(* iterator variable is [live, it, rets]: rets are the values its next has *)
(* returned so far.                                                        *)
(***************************************************************************)
VARIABLES re, text, pc, call, ret, finder, capfinder, splits, splitsn

vars == << re, text, pc, call, ret, finder, capfinder, splits, splitsn >>

NoIter == [live |-> FALSE, it |-> << >>, rets |-> << >>]
NewIter(it) == [live |-> TRUE, it |-> it, rets |-> << >>]
Stepped(h, r) == [h EXCEPT !.it = r.it, !.rets = Append(@, r.ret)]

NoCall == [op |-> "none", limit |-> 0, rep |-> NoExpand(<< >>)]
Called(op, limit, rep) == [op |-> op, limit |-> limit, rep |-> rep]

\* The number of None among the returned values.
Nones(rets) == Cardinality({ j \in 1..Len(rets) : rets[j] = None })

\* A client keeps calling next until it has seen ExtraCalls None.
MayCall(h) == h.live /\ Nones(h.rets) < ExtraCalls

Init ==
    /\ \E r \in Regexes : re = Regexp_new(r.src, r.ast)
    /\ \E cs \in CharSeqs : text = Encode(cs)
    /\ pc = "start"
    /\ call = NoCall
    /\ ret = None
    /\ finder = NoIter
    /\ capfinder = NoIter
    /\ splits = NoIter
    /\ splitsn = NoIter

Returns(op, limit, rep, v) ==
    /\ pc = "start"
    /\ pc' = "returned"
    /\ call' = Called(op, limit, rep)
    /\ ret' = Some(v)
    /\ UNCHANGED << re, text, finder, capfinder, splits, splitsn >>

IsMatch == Returns("is_match", 0, NoCall.rep, is_match(re, text))

Find == Returns("find", 0, NoCall.rep, find(re, text))

CapturesCall == Returns("captures", 0, NoCall.rep, captures(re, text))

Replace == \E rep \in Replacers : Returns("replace", 0, rep, replace(re, text, rep))

ReplaceAll ==
    \E rep \in Replacers : Returns("replace_all", 0, rep, replace_all(re, text, rep))

Replacen ==
    \E limit \in 0..MaxLimit, rep \in Replacers :
        Returns("replacen", limit, rep, replacen(re, text, limit, rep))

Starts(op, limit) ==
    /\ pc = "start"
    /\ pc' = "iterating"
    /\ call' = Called(op, limit, NoCall.rep)
    /\ UNCHANGED << re, text, ret >>

FindIter ==
    /\ Starts("find_iter", 0)
    /\ finder' = NewIter(find_iter(re, text))
    /\ UNCHANGED << capfinder, splits, splitsn >>

FindMatchesNext ==
    /\ MayCall(finder)
    /\ \E r \in { FindMatches_next(re, finder.it) } : finder' = Stepped(finder, r)
    /\ UNCHANGED << re, text, pc, call, ret, capfinder, splits, splitsn >>

CapturesIter ==
    /\ Starts("captures_iter", 0)
    /\ capfinder' = NewIter(captures_iter(re, text))
    /\ UNCHANGED << finder, splits, splitsn >>

FindCapturesNext ==
    /\ MayCall(capfinder)
    /\ \E r \in { FindCaptures_next(re, capfinder.it) } :
            capfinder' = Stepped(capfinder, r)
    /\ UNCHANGED << re, text, pc, call, ret, finder, splits, splitsn >>

SplitCall ==
    /\ Starts("split", 0)
    /\ splits' = NewIter(split(re, text))
    /\ UNCHANGED << finder, capfinder, splitsn >>

RegexpSplitsNext ==
    /\ MayCall(splits)
    /\ \E r \in { RegexpSplits_next(re, splits.it) } : splits' = Stepped(splits, r)
    /\ UNCHANGED << re, text, pc, call, ret, finder, capfinder, splitsn >>

SplitnCall ==
    \E limit \in 0..MaxLimit :
        /\ Starts("splitn", limit)
        /\ splitsn' = NewIter(splitn(re, text, limit))
        /\ UNCHANGED << finder, capfinder, splits >>

RegexpSplitsNNext ==
    /\ MayCall(splitsn)
    /\ \E r \in { RegexpSplitsN_next(re, splitsn.it) } :
            splitsn' = Stepped(splitsn, r)
    /\ UNCHANGED << re, text, pc, call, ret, finder, capfinder, splits >>

Next ==
    \/ IsMatch
    \/ Find
    \/ CapturesCall
    \/ Replace
    \/ ReplaceAll
    \/ Replacen
    \/ FindIter
    \/ FindMatchesNext
    \/ CapturesIter
    \/ FindCapturesNext
    \/ SplitCall
    \/ RegexpSplitsNext
    \/ SplitnCall
    \/ RegexpSplitsNNext

Spec == Init /\ [][Next]_vars

(***************************************************************************)
(* Several executions over one compiled regex: the three iterators may be  *)
(* live together, their next calls interleaved in any order, and one of    *)
(* is_match, find and captures is called at any point among them.         *)
(***************************************************************************)
SharedRegexes ==
    { r \in Regexes : r.src \in {"", "a*", "^a", "(a|ab)(b)?a?"} }

SharedTexts == UNION { [1..n -> {97, 98}] : n \in 0..MaxLen }

InitShared ==
    /\ \E r \in SharedRegexes : re = Regexp_new(r.src, r.ast)
    /\ \E cs \in SharedTexts : text = Encode(cs)
    /\ pc = "start"
    /\ call = NoCall
    /\ ret = None
    /\ finder = NoIter
    /\ capfinder = NoIter
    /\ splits = NoIter
    /\ splitsn = NoIter

\* Here a client drops an iterator once it has returned None.
InLoop(h) == h.live /\ Nones(h.rets) = 0

SharedReturns(op, v) ==
    /\ pc = "start"
    /\ pc' = "returned"
    /\ call' = Called(op, 0, NoCall.rep)
    /\ ret' = Some(v)
    /\ UNCHANGED << re, text, finder, capfinder, splits, splitsn >>

SharedIsMatch == SharedReturns("is_match", is_match(re, text))

SharedFind == SharedReturns("find", find(re, text))

SharedCaptures == SharedReturns("captures", captures(re, text))

SharedFindIter ==
    /\ ~finder.live
    /\ finder' = NewIter(find_iter(re, text))
    /\ UNCHANGED << re, text, pc, call, ret, capfinder, splits, splitsn >>

\* Mutant of SharedFindMatchesNext: the search position is shared with the
\* captures_iter iterator that is live on the same regex.
SharedFindMatchesNext_leaky ==
    /\ InLoop(finder)
    /\ \E r \in { FindMatches_next(re, finder.it) } :
          /\ finder' = Stepped(finder, r)
          /\ capfinder' =
                IF capfinder.live
                THEN [capfinder EXCEPT !.it.last_end = r.it.last_end,
                                       !.it.last_match = r.it.last_match]
                ELSE capfinder
    /\ UNCHANGED << re, text, pc, call, ret, splits, splitsn >>

SharedFindMatchesNext ==
    /\ InLoop(finder)
    /\ \E r \in { FindMatches_next(re, finder.it) } : finder' = Stepped(finder, r)
    /\ UNCHANGED << re, text, pc, call, ret, capfinder, splits, splitsn >>

SharedCapturesIter ==
    /\ ~capfinder.live
    /\ capfinder' = NewIter(captures_iter(re, text))
    /\ UNCHANGED << re, text, pc, call, ret, finder, splits, splitsn >>

SharedSplit ==
    /\ ~splits.live
    /\ splits' = NewIter(split(re, text))
    /\ UNCHANGED << re, text, pc, call, ret, finder, capfinder, splitsn >>

SharedFindCapturesNext ==
    /\ InLoop(capfinder)
    /\ \E r \in { FindCaptures_next(re, capfinder.it) } :
            capfinder' = Stepped(capfinder, r)
    /\ UNCHANGED << re, text, pc, call, ret, finder, splits, splitsn >>

SharedRegexpSplitsNext ==
    /\ InLoop(splits)
    /\ \E r \in { RegexpSplits_next(re, splits.it) } : splits' = Stepped(splits, r)
    /\ UNCHANGED << re, text, pc, call, ret, finder, capfinder, splitsn >>

NextShared ==
    \/ SharedIsMatch
    \/ SharedFind
    \/ SharedCaptures
    \/ SharedFindIter
    \/ SharedFindMatchesNext
    \/ SharedCapturesIter
    \/ SharedFindCapturesNext
    \/ SharedSplit
    \/ SharedRegexpSplitsNext

SpecShared == InitShared /\ [][NextShared]_vars

(***************************************************************************)
(* Compiling alone: DynamicProgram::new applied to every AST built from    *)
(* the empty regex and a literal by at most AstDepth levels of Alt, Cat    *)
(* and the three repeats, greedy and lazy (one operand of an Alt or a Cat  *)
(* is a leaf).  The AST to compile is in call.ast.                         *)
(***************************************************************************)
Leaves == { Nothing, Lit(97) }

RepKinds == { "ZeroOne", "ZeroMore", "OneMore" }

RECURSIVE AstsUpTo(_)
AstsUpTo(d) ==
    IF d = 0 THEN Leaves
    ELSE LET sub == AstsUpTo(d - 1)
         IN  sub
             \cup { Alt(x, y) : x \in sub, y \in Leaves }
             \cup { Alt(x, y) : x \in Leaves, y \in sub }
             \cup { Cat(<< x, y >>) : x \in sub, y \in Leaves }
             \cup { Cat(<< x, y >>) : x \in Leaves, y \in sub }
             \cup { Rep(x, kind, greedy) :
                       x \in sub, kind \in RepKinds, greedy \in BOOLEAN }

InitCompile ==
    /\ \E ast \in AstsUpTo(AstDepth) :
          call = [op |-> "new", limit |-> 0, rep |-> NoCall.rep, ast |-> ast]
    /\ re = [orig |-> "", prog |-> << >>, names |-> << >>]
    /\ text = << >>
    /\ pc = "start"
    /\ ret = None
    /\ finder = NoIter
    /\ capfinder = NoIter
    /\ splits = NoIter
    /\ splitsn = NoIter

DynamicProgramNew ==
    /\ pc = "start"
    /\ pc' = "returned"
    /\ ret' = Some(DynamicProgram_new("", call.ast))
    /\ UNCHANGED << re, text, call, finder, capfinder, splits, splitsn >>

NextCompile == DynamicProgramNew

SpecCompile == InitCompile /\ [][NextCompile]_vars

(***************************************************************************)
(* One run of the VM, position by position: the program of a ZeroMore or   *)
(* OneMore repeat (whose child may match the empty string, which compiles  *)
(* to a cycle of Split and Jump) over a text of a and b.  ret holds the    *)
(* state of the run: the position i, the list carried into it (clist), the *)
(* list after seeding (current), the best match so far and the number of   *)
(* positions stepped.                                                      *)
(***************************************************************************)
VmAsts ==
    { Rep(x, kind, greedy) :
        x \in AstsUpTo(1), kind \in {"ZeroMore", "OneMore"}, greedy \in BOOLEAN }

InitVm ==
    /\ \E ast \in VmAsts : re = Regexp_new("", ast)
    /\ \E cs \in SharedTexts : text = Encode(cs)
    /\ pc = "start"
    /\ call = NoCall
    /\ ret = None
    /\ finder = NoIter
    /\ capfinder = NoIter
    /\ splits = NoIter
    /\ splitsn = NoIter

FreshSlots(insts) == [j \in 1..(2 * num_captures(insts)) |-> None]

VmStart ==
    /\ pc = "start"
    /\ pc' = "running"
    /\ call' = Called("run", 0, NoCall.rep)
    /\ ret' = Some([i |-> 0, clist |-> EmptyThreads, current |-> EmptyThreads,
                    matched |-> None, steps |-> 0])
    /\ UNCHANGED << re, text, finder, capfinder, splits, splitsn >>

\* The loop has ended: i has passed n, or both lists are empty after a match.
VmReturn ==
    /\ pc = "running"
    /\ LET st == Unwrap(ret)
       IN  \/ st.i > Len(chars_of(text))
           \/ (st.matched # None /\ st.clist.threads = << >>)
    /\ pc' = "returned"
    /\ UNCHANGED << re, text, call, ret, finder, capfinder, splits, splitsn >>

\* One position: seed, step every thread, swap the lists, advance i.
VmStep ==
    /\ pc = "running"
    /\ \E st \in { Unwrap(ret) }, input \in { chars_of(text) } :
          /\ st.i <= Len(input)
          /\ ~(st.matched # None /\ st.clist.threads = << >>)
          /\ \E seeded \in { IF st.matched = None
                              THEN Add(re.prog, input, st.clist, 0,
                                       FreshSlots(re.prog), st.i)
                              ELSE st.clist } :
                \E r \in { StepThreads(re.prog, input, st.i, seeded.threads, 1,
                                        EmptyThreads, st.matched) } :
                    ret' = Some([i |-> st.i + 1, clist |-> r.nlist,
                                 current |-> seeded, matched |-> r.matched,
                                 steps |-> st.steps + 1])
    /\ UNCHANGED << re, text, pc, call, finder, capfinder, splits, splitsn >>

NextVm == VmStart \/ VmStep \/ VmReturn

SpecVm == InitVm /\ [][NextVm]_vars

(***************************************************************************)
(* What a for loop over an iterator sees: the values returned before the   *)
(* first None.                                                             *)
(***************************************************************************)
FirstNone(rets) ==
    IF \E j \in 1..Len(rets) : rets[j] = None
    THEN CHOOSE j \in 1..Len(rets) :
            rets[j] = None /\ \A m \in 1..(j - 1) : rets[m] # None
    ELSE Len(rets) + 1

Yielded(rets) == [j \in 1..(FirstNone(rets) - 1) |-> Unwrap(rets[j])]

Finished(h) == h.live /\ Nones(h.rets) >= 1

Returned(op) == pc = "returned" /\ call.op = op

(***************************************************************************)
(* C1: is_match(text) is true exactly when find(text) returns a match and  *)
(* exactly when captures(text) returns a Captures; on a text without a     *)
(* match find returns None.                                                *)
(***************************************************************************)
C1_MatchAgreement ==
    /\ Returned("is_match") =>
          /\ Unwrap(ret) = IsSome(find(re, text))
          /\ Unwrap(ret) = IsSome(captures(re, text))
    /\ Returned("find") => IsSome(Unwrap(ret)) = is_match(re, text)
    /\ Returned("captures") => IsSome(Unwrap(ret)) = is_match(re, text)

C1_Witness ==
    /\ Returned("find")
    /\ Unwrap(ret) = None
    /\ text # << >>
    /\ ~is_match(re, text)

(***************************************************************************)
(* C2: replace(text, rep) returns text unchanged when the regex has no     *)
(* match in text.                                                          *)
(***************************************************************************)
C2_ReplaceNoMatchCopies ==
    (Returned("replace") /\ find(re, text) = None) => Unwrap(ret) = text

(***************************************************************************)
(* C3: for the empty regex and a text of n chars, find_iter yields the     *)
(* empty matches at the char positions 0, 1, ..., n, in that order, and    *)
(* then ends.                                                              *)
(***************************************************************************)
EveryPosition(t) ==
    LET bis == char_to_byte_indices(t)
    IN  [j \in 1..Len(bis) |-> << bis[j], bis[j] >>]

C3_EmptyRegexEveryPosition ==
    (re.orig = "" /\ Finished(finder)) =>
        Yielded(finder.rets) = EveryPosition(text)

(***************************************************************************)
(* C4: the matches find_iter yields have strictly increasing ends and do   *)
(* not overlap: e_k <= s_{k+1} and e_k < e_{k+1}.                          *)
(***************************************************************************)
C4_IncreasingDisjoint ==
    finder.live =>
        LET ys == Yielded(finder.rets) IN
        \A j \in 1..(Len(ys) - 1) :
            /\ ys[j][2] <= ys[j + 1][1]
            /\ ys[j][2] < ys[j + 1][2]

\* An empty match accepted right after a non-empty one was rejected at its end.
C4_Witness ==
    /\ finder.live
    /\ \E j \in 1..(Len(Yielded(finder.rets)) - 1) :
          LET ys == Yielded(finder.rets) IN
          /\ ys[j][1] < ys[j][2]
          /\ ys[j + 1][1] = ys[j + 1][2]

(***************************************************************************)
(* The sequences a for loop collects from a fresh iterator (at most fuel   *)
(* values).                                                                *)
(***************************************************************************)
RECURSIVE DrainFind(_, _, _)
DrainFind(r0, it, fuel) ==
    IF fuel = 0 THEN << >>
    ELSE CHOOSE out \in
      { IF r.ret = None THEN << >>
        ELSE << Unwrap(r.ret) >> \o DrainFind(r0, r.it, fuel - 1)
        : r \in { FindMatches_next(r0, it) } } : TRUE

RECURSIVE DrainCaptures(_, _, _)
DrainCaptures(r0, it, fuel) ==
    IF fuel = 0 THEN << >>
    ELSE CHOOSE out \in
      { IF r.ret = None THEN << >>
        ELSE << Unwrap(r.ret) >> \o DrainCaptures(r0, r.it, fuel - 1)
        : r \in { FindCaptures_next(r0, it) } } : TRUE

RECURSIVE DrainSplits(_, _, _)
DrainSplits(r0, it, fuel) ==
    IF fuel = 0 THEN << >>
    ELSE CHOOSE out \in
      { IF r.ret = None THEN << >>
        ELSE << Unwrap(r.ret) >> \o DrainSplits(r0, r.it, fuel - 1)
        : r \in { RegexpSplits_next(r0, it) } } : TRUE

Fuel == Len(text) + 3

AllMatches == DrainFind(re, find_iter(re, text), Fuel)
AllCaptures == DrainCaptures(re, captures_iter(re, text), Fuel)
AllSplits == DrainSplits(re, split(re, text), Fuel)

RECURSIVE ConcatAll(_)
ConcatAll(ss) == IF ss = << >> THEN << >> ELSE Head(ss) \o ConcatAll(Tail(ss))

Min(a, b) == IF a <= b THEN a ELSE b

(***************************************************************************)
(* C5: the substrings split yields, interleaved in order with the matched  *)
(* substrings find_iter yields (piece, match, piece, match, ..., and a     *)
(* final piece if any), concatenate to the text.                           *)
(***************************************************************************)
C5_SplitReconstructs ==
    Finished(splits) =>
        LET ps == Yielded(splits.rets)
            ms == AllMatches
        IN  /\ Len(ps) \in { Len(ms), Len(ms) + 1 }
            /\ ConcatAll([j \in 1..Len(ps) |->
                    ps[j] \o (IF j <= Len(ms)
                              THEN slice(text, ms[j][1], ms[j][2])
                              ELSE << >>)]) = text

\* A split with a non-empty piece on each side of a match.
C5_Witness ==
    /\ Finished(splits)
    /\ Len(Yielded(splits.rets)) >= 2
    /\ Yielded(splits.rets)[1] # << >>
    /\ Yielded(splits.rets)[2] # << >>

(***************************************************************************)
(* C6: splitn(text, limit) yields at most limit substrings; those before   *)
(* the last are the first ones of split(text); and when limit substrings   *)
(* are yielded, the last one is the text from the end of the preceding     *)
(* delimiter match to the end of the text.                                 *)
(***************************************************************************)
\* The end of the delimiter match that precedes the j-th piece (0 before any).
DelimiterEnd(ms, j) ==
    IF j = 1 \/ ms = << >> THEN 0 ELSE ms[Min(j - 1, Len(ms))][2]

C6_SplitnLastIsRemainder ==
    Finished(splitsn) =>
        LET ys == Yielded(splitsn.rets)
            limit == call.limit
            ps == AllSplits
            ms == AllMatches
        IN  /\ Len(ys) <= limit
            /\ \A j \in 1..Len(ys) :
                  j < limit => (j <= Len(ps) /\ ys[j] = ps[j])
            /\ (limit >= 1 /\ Len(ys) = limit) =>
                  ys[limit] = slice(text, DelimiterEnd(ms, limit), Len(text))

(***************************************************************************)
(* C7: replacen(text, limit, rep) replaces the first min(limit, k) of the  *)
(* k matches captures_iter yields (all of them when limit is 0) by the     *)
(* replacer's output, and keeps the text outside them, in order;           *)
(* replace_all(text, rep) is replacen(text, 0, rep).                       *)
(***************************************************************************)
Replaced(limit, rep) ==
    LET cs == AllCaptures
        m == IF limit = 0 THEN Len(cs) ELSE Min(limit, Len(cs))
        span(j) == Unwrap(cs[j].locs[1])
        from(j) == IF j = 1 THEN 0 ELSE span(j - 1)[2]
    IN  ConcatAll([j \in 1..m |->
                      slice(text, from(j), span(j)[1])
                      \o Replacer_replace(rep, cs[j])])
        \o slice(text, from(m + 1), Len(text))

C7_ReplacenFirstMatches ==
    /\ Returned("replacen") => Unwrap(ret) = Replaced(call.limit, call.rep)
    /\ Returned("replace_all") => Unwrap(ret) = Replaced(0, call.rep)

\* A limit below the number of matches: b on "bab", limit 1, gives "xab".
C7_Witness ==
    /\ Returned("replacen")
    /\ call.limit = 1
    /\ call.rep = NoExpand(<< 120 >>)
    /\ re.orig = "b"
    /\ text = << 98, 97, 98 >>
    /\ Unwrap(ret) = << 120, 97, 98 >>

(***************************************************************************)
(* C8: every span (s, e) returned by find, captures, find_iter or          *)
(* captures_iter satisfies 0 <= s <= e <= byte length of the text, and s   *)
(* and e are entries of the char-to-byte table of the text.                *)
(***************************************************************************)
Boundaries == { b \in 0..Len(text) : is_char_boundary(text, b) }

SpanOk(o) ==
    IsSome(o) =>
        /\ 0 <= Unwrap(o)[1]
        /\ Unwrap(o)[1] <= Unwrap(o)[2]
        /\ Unwrap(o)[2] <= Len(text)
        /\ Unwrap(o)[1] \in Boundaries
        /\ Unwrap(o)[2] \in Boundaries

LocsOk(o) == IsSome(o) => \A g \in 1..Len(Unwrap(o).locs) : SpanOk(Unwrap(o).locs[g])

C8_SpansOnBoundaries ==
    /\ Returned("find") => SpanOk(Unwrap(ret))
    /\ Returned("captures") => LocsOk(Unwrap(ret))
    /\ \A j \in 1..Len(finder.rets) : SpanOk(finder.rets[j])
    /\ \A j \in 1..Len(capfinder.rets) : LocsOk(capfinder.rets[j])

\* A later match of captures_iter, found by a resumed search, behind a
\* two-byte char.
C8_Witness ==
    /\ capfinder.live
    /\ text # << >>
    /\ text[1] >= 128
    /\ \E j \in 2..Len(capfinder.rets) :
          /\ IsSome(capfinder.rets[j])
          /\ Unwrap(Unwrap(capfinder.rets[j]).locs[1])[1] >= 3

(***************************************************************************)
(* C9: in a successful match group 0 is present and spans the match, every *)
(* group g > 0 is absent or has s_0 <= s_g <= e_g <= e_0, and no group has *)
(* only one of its two save slots set.                                     *)
(***************************************************************************)
GroupsNested(locs) ==
    /\ IsSome(locs[1])
    /\ Unwrap(locs[1])[1] <= Unwrap(locs[1])[2]
    /\ \A g \in 2..Len(locs) :
          IsSome(locs[g]) =>
              /\ Unwrap(locs[1])[1] <= Unwrap(locs[g])[1]
              /\ Unwrap(locs[g])[1] <= Unwrap(locs[g])[2]
              /\ Unwrap(locs[g])[2] <= Unwrap(locs[1])[2]

SlotsPaired(won) ==
    IsSome(won) =>
        \A g \in 1..(Len(Unwrap(won)) \div 2) :
            IsSome(Unwrap(won)[2 * g - 1]) = IsSome(Unwrap(won)[2 * g])

C9_GroupsWithinMatch ==
    /\ Returned("captures") =>
          /\ IsSome(Unwrap(ret)) =>
                /\ GroupsNested(Unwrap(Unwrap(ret)).locs)
                /\ Unwrap(Unwrap(ret)).locs[1] = find(re, text)
                /\ Len(Unwrap(Unwrap(ret)).locs) = num_captures(re.prog)
          /\ SlotsPaired(VmSlots(re.prog, chars_of(text)))
    /\ \A j \in 1..Len(capfinder.rets) :
          IsSome(capfinder.rets[j]) => GroupsNested(Unwrap(capfinder.rets[j]).locs)

\* A match with one group set, strictly inside the match, and one absent.
C9_Witness ==
    /\ Returned("captures")
    /\ IsSome(Unwrap(ret))
    /\ \E g \in 2..Len(Unwrap(Unwrap(ret)).locs) :
          /\ IsSome(Unwrap(Unwrap(ret)).locs[g])
          /\ Unwrap(Unwrap(ret)).locs[g] # Unwrap(Unwrap(ret)).locs[1]
    /\ \E g \in 2..Len(Unwrap(Unwrap(ret)).locs) : Unwrap(Unwrap(ret)).locs[g] = None

(***************************************************************************)
(* Leftmost-first matching, defined on the AST: Ends(ast, input, i) is the *)
(* sequence of the positions at which a match of ast starting at i can     *)
(* end, in the order a backtracking matcher tries them (an iteration of a  *)
(* repeat that consumes nothing is not repeated).                          *)
(***************************************************************************)
InstOf(ast) ==
    CASE ast.k = "Literal" -> Char_(ast.c, ast.casei)
      [] ast.k = "Dot" -> Any_(ast.nl)
      [] ast.k = "Class" -> CharClass(ast.ranges, ast.negated, ast.casei)
      [] ast.k = "Begin" -> EmptyBegin(ast.multi)
      [] ast.k = "End" -> EmptyEnd(ast.multi)
      [] ast.k = "WordBoundary" -> EmptyWordBoundary(ast.yes)

RECURSIVE Ends(_, _, _)
RECURSIVE EndsCat(_, _, _, _)
RECURSIVE EndsMore(_, _, _, _, _)

\* The ends of ast repeated from each of the ends es[j..] of one iteration
\* that started at i; once is TRUE for OneMore, whose iteration may also be
\* the last.
EndsMore(ast, input, i, es, j) ==
    IF j > Len(es) THEN << >>
    ELSE LET again == IF es[j] > i THEN Ends(ast, input, es[j]) ELSE << >>
             stop == IF ast.kind = "OneMore" THEN << es[j] >> ELSE << >>
         IN  (IF ast.greedy THEN again \o stop ELSE stop \o again)
             \o EndsMore(ast, input, i, es, j + 1)

EndsCat(xs, k, input, i) ==
    IF k > Len(xs) THEN << i >>
    ELSE LET es == Ends(xs[k], input, i)
         IN  ConcatAll([j \in 1..Len(es) |-> EndsCat(xs, k + 1, input, es[j])])

Ends(ast, input, i) ==
    CASE ast.k = "Nothing" -> << i >>
      [] ast.k \in {"Literal", "Dot", "Class"} ->
            IF i < Len(input) /\ Consumes(InstOf(ast), At(input, i))
            THEN << i + 1 >> ELSE << >>
      [] ast.k \in {"Begin", "End", "WordBoundary"} ->
            IF EmptyHolds(InstOf(ast), input, i) THEN << i >> ELSE << >>
      [] ast.k = "Capture" -> Ends(ast.x, input, i)
      [] ast.k = "Cat" -> EndsCat(ast.xs, 1, input, i)
      [] ast.k = "Alt" -> Ends(ast.x, input, i) \o Ends(ast.y, input, i)
      [] ast.k = "Rep" /\ ast.kind = "ZeroOne" ->
            IF ast.greedy THEN Ends(ast.x, input, i) \o << i >>
            ELSE << i >> \o Ends(ast.x, input, i)
      [] ast.k = "Rep" /\ ast.kind = "ZeroMore" ->
            IF ast.greedy
            THEN EndsMore(ast, input, i, Ends(ast.x, input, i), 1) \o << i >>
            ELSE << i >> \o EndsMore(ast, input, i, Ends(ast.x, input, i), 1)
      [] ast.k = "Rep" /\ ast.kind = "OneMore" ->
            EndsMore(ast, input, i, Ends(ast.x, input, i), 1)

RECURSIVE LeftmostFirstFrom(_, _, _)
LeftmostFirstFrom(ast, input, i) ==
    IF i > Len(input) THEN None
    ELSE IF Ends(ast, input, i) # << >>
    THEN Some(<< i, Head(Ends(ast, input, i)) >>)
    ELSE LeftmostFirstFrom(ast, input, i + 1)

\* The leftmost-first match of the regex in the text, in byte offsets.
LeftmostFirst ==
    LET m == LeftmostFirstFrom(AstOf(re.orig), chars_of(text), 0)
        bis == char_to_byte_indices(text)
    IN  IF m = None THEN None
        ELSE Some(<< At(bis, Unwrap(m)[1]), At(bis, Unwrap(m)[2]) >>)

PrefixOf(r0) == Encode(DynamicProgram_new(r0.orig, AstOf(r0.orig)).prefix)

StartsWith(t, s, p) ==
    s + Len(p) <= Len(t) /\ SubSeq(t, s + 1, s + Len(p)) = p

PrefixAt(o) == IsSome(o) => StartsWith(text, Unwrap(o)[1], PrefixOf(re))

C11_MatchBeginsWithPrefix ==
    /\ Returned("find") => PrefixAt(Unwrap(ret))
    /\ Returned("captures") =>
          (IsSome(Unwrap(ret)) => PrefixAt(Unwrap(Unwrap(ret)).locs[1]))
    /\ \A j \in 1..Len(finder.rets) : PrefixAt(finder.rets[j])
    /\ \A j \in 1..Len(capfinder.rets) :
          IsSome(capfinder.rets[j]) => PrefixAt(Unwrap(capfinder.rets[j]).locs[1])

\* A match of ab+, whose prefix is "ab", that does not start at 0.
C11_Witness ==
    /\ Returned("find")
    /\ PrefixOf(re) = << 97, 98 >>
    /\ IsSome(Unwrap(ret))
    /\ Unwrap(Unwrap(ret))[1] > 0

(***************************************************************************)
(* The first k values the next of an iterator returns when nothing else    *)
(* runs between its calls.                                                 *)
(***************************************************************************)
RECURSIVE FindRetsAlone(_, _, _)
FindRetsAlone(r0, it, k) ==
    IF k = 0 THEN << >>
    ELSE CHOOSE out \in
      { << r.ret >> \o FindRetsAlone(r0, r.it, k - 1)
        : r \in { FindMatches_next(r0, it) } } : TRUE

RECURSIVE CapturesRetsAlone(_, _, _)
CapturesRetsAlone(r0, it, k) ==
    IF k = 0 THEN << >>
    ELSE CHOOSE out \in
      { << r.ret >> \o CapturesRetsAlone(r0, r.it, k - 1)
        : r \in { FindCaptures_next(r0, it) } } : TRUE

RECURSIVE SplitRetsAlone(_, _, _)
SplitRetsAlone(r0, it, k) ==
    IF k = 0 THEN << >>
    ELSE CHOOSE out \in
      { << r.ret >> \o SplitRetsAlone(r0, r.it, k - 1)
        : r \in { RegexpSplits_next(r0, it) } } : TRUE

(***************************************************************************)
(* C12: under any interleaving of is_match, find, captures and the next    *)
(* calls of find_iter, captures_iter and split iterators over one compiled *)
(* regex, the regex (instructions, capture names, source) stays as         *)
(* compiled, and each iterator returns the sequence it returns alone.      *)
(***************************************************************************)
C12_SharedRegexReadOnly ==
    /\ re = Regexp_new(re.orig, AstOf(re.orig))
    /\ finder.live =>
          finder.rets = FindRetsAlone(re, find_iter(re, text), Len(finder.rets))
    /\ capfinder.live =>
          capfinder.rets =
              CapturesRetsAlone(re, captures_iter(re, text), Len(capfinder.rets))
    /\ splits.live =>
          splits.rets = SplitRetsAlone(re, split(re, text), Len(splits.rets))

\* The three iterators live together, each of them part of the way through
\* its matches, and a find call made meanwhile.
C12_Witness ==
    /\ Returned("find")
    /\ finder.live /\ capfinder.live /\ splits.live
    /\ Len(finder.rets) = 1 /\ IsSome(finder.rets[1])
    /\ Len(capfinder.rets) = 2 /\ IsSome(capfinder.rets[2])
    /\ Len(splits.rets) = 1

(***************************************************************************)
(* C13: after DynamicProgram::new, for every AST (nested Alt and repeats,  *)
(* with empty children too), patching has not failed, and every Jump and   *)
(* Split target is an index of the instruction array other than 0, the     *)
(* target of an unpatched placeholder (nothing jumps to the Save(0) at 0). *)
(***************************************************************************)
ValidTarget(insts, t) == 1 <= t /\ t < Len(insts)

C13_TargetsValid ==
    (pc = "returned" /\ call.op = "new") =>
        LET p == Unwrap(ret)
        IN  /\ ~p.failed
            /\ \A i \in 0..(Len(p.insts) - 1) :
                  /\ At(p.insts, i).op = "Jump" =>
                        ValidTarget(p.insts, At(p.insts, i).to)
                  /\ At(p.insts, i).op = "Split" =>
                        /\ ValidTarget(p.insts, At(p.insts, i).x)
                        /\ ValidTarget(p.insts, At(p.insts, i).y)

\* A lazy ZeroMore of an Alt with an empty alternative, compiled.
C13_Witness ==
    /\ pc = "returned"
    /\ call.op = "new"
    /\ call.ast = Rep(Alt(Nothing, Lit(97)), "ZeroMore", FALSE)
    /\ \E i \in 0..(Len(Unwrap(ret).insts) - 1) : At(Unwrap(ret).insts, i).op = "Jump"

(***************************************************************************)
(* C14: on a text of n chars, find_iter and captures_iter yield at most    *)
(* n + 1 matches before None, None is returned by the call n + 2 at the    *)
(* latest, and the position a retry of next advances never passes n + 1,   *)
(* so a next call retries finitely often and a regex that matches the      *)
(* empty string does not hold the iteration at one position.               *)
(***************************************************************************)
EndsWithin(h) ==
    h.live =>
        LET n == Len(chars_of(text))
        IN  /\ Len(Yielded(h.rets)) <= n + 1
            /\ Len(h.rets) >= n + 2 => Nones(h.rets) >= 1
            /\ h.it.last_end <= n + 1
            /\ h.it.last_match <= h.it.last_end

C14_IterationEnds == EndsWithin(finder) /\ EndsWithin(capfinder)

\* a* on "bab": the empty match at 0 and the one right after the match of a
\* are retried past, (1, 2) and (3, 3) are yielded, and then None is returned.
C14_Witness ==
    /\ re.orig = "a*"
    /\ text = << 98, 97, 98 >>
    /\ Finished(finder)
    /\ Yielded(finder.rets) = << << 1, 2 >>, << 3, 3 >> >>
    /\ finder.it.last_end = 4

(***************************************************************************)
(* C15: at every position of a VM run each pc is in a thread list at most  *)
(* once, also for programs whose non-consuming instructions form a cycle,  *)
(* so a list never holds more threads than the program has instructions;   *)
(* the run ends after at most n + 1 positions for a text of n chars, with  *)
(* the result of vm::run.                                                  *)
(***************************************************************************)
OncePerPc(list, insts) ==
    /\ \A j, k \in 1..Len(list.threads) :
          list.threads[j].pc = list.threads[k].pc => j = k
    /\ \A j \in 1..Len(list.threads) : list.threads[j].pc \in list.seen
    /\ list.seen \subseteq 0..(Len(insts) - 1)
    /\ Len(list.threads) <= Len(insts)

C15_OncePerPosition ==
    (call.op = "run" /\ pc \in {"running", "returned"}) =>
        LET st == Unwrap(ret)
            input == chars_of(text)
        IN  /\ OncePerPc(st.clist, re.prog)
            /\ OncePerPc(st.current, re.prog)
            /\ st.steps <= Len(input) + 1
            /\ st.i = st.steps
            /\ pc = "returned" => st.matched = VmSlots(re.prog, input)

\* The closure has gone round a cycle: a Split or Jump was reached again at
\* one position, and the run went on to the end of a text of two chars.
C15_Witness ==
    /\ call.op = "run"
    /\ pc = "returned"
    /\ re.prog = DynamicProgram_new("", Rep(Rep(Lit(97), "OneMore", TRUE),
                                            "ZeroMore", TRUE)).insts
    /\ text = << 97, 97 >>
    /\ Unwrap(ret).steps = 3
    /\ Unwrap(ret).matched # None
    /\ Len(Unwrap(ret).current.threads) = 2

(***************************************************************************)
(* C16: the first value find_iter yields is the match find returns, and    *)
(* find_iter yields nothing when find returns None; so also when the match *)
(* is an empty one at position 0, as for ^$ on the empty text.             *)
(***************************************************************************)
C16_FindIsFirstOfIter ==
    (finder.live /\ Len(finder.rets) >= 1) => finder.rets[1] = find(re, text)

(***************************************************************************)
(* C17: every match find_iter or captures_iter yields is a match of the    *)
(* regex in the full text, its zero-width assertions (begin and end        *)
(* anchors, word boundaries) judged at the positions of the whole text and *)
(* not of the slice the search was resumed on; ^a on "aa" yields (0, 1)    *)
(* only.                                                                   *)
(***************************************************************************)
CharIndex(t, b) ==
    CHOOSE j \in 0..Len(chars_of(t)) : At(char_to_byte_indices(t), j) = b

MatchesInFullText(o) ==
    IsSome(o) =>
        LET es == Ends(AstOf(re.orig), chars_of(text),
                       CharIndex(text, Unwrap(o)[1]))
        IN  \E j \in 1..Len(es) : es[j] = CharIndex(text, Unwrap(o)[2])

C17_AssertionsOnFullText ==
    /\ \A j \in 1..Len(finder.rets) : MatchesInFullText(finder.rets[j])
    /\ \A j \in 1..Len(capfinder.rets) :
          IsSome(capfinder.rets[j]) =>
              MatchesInFullText(Unwrap(capfinder.rets[j]).locs[1])
    /\ (re.orig = "^a" /\ text = << 97, 97 >> /\ Finished(finder)) =>
          Yielded(finder.rets) = << << 0, 1 >> >>

====
